---- MODULE Spec2Model ----
(***************************************************************************)
(* Model of homework.py: a bot that polls the homework-status API and      *)
(* relays status changes and failures to a Telegram chat.                  *)
(*                                                                         *)
(* Python values are encoded with uniform records:                         *)
(*   a JSON body      [type, keys, homeworks, current_date]                *)
(*   a homeworks value [type, items]                                       *)
(*   a homework        [keys, homework_name, status]                       *)
(*   an exception      [type, text, by]  (text is str(error))              *)
(* The Russian message texts of the source are written in ASCII.           *)
(***************************************************************************)
EXTENDS Integers, Sequences, FiniteSets, TLC

VARIABLES
    pc,                 \* position of main(): see PcValues
    tokens,             \* the environment variables that are set (not None)
    exc_str,            \* str() of the exceptions.py classes raised without arguments
    now,                \* time.time()
    current_timestamp,  \* main's local current_timestamp
    LAST_ERROR_MESSAGE, \* main's local LAST_ERROR_MESSAGE
    http,               \* outcome of requests.get in this iteration
    from_date,          \* params['from_date'] of the GET of this iteration
    response,           \* main's local response
    homeworks,          \* main's local homeworks
    idx,                \* position of the for loop in homeworks
    message,            \* main's local message
    error,              \* the exception caught by `except Exception as error`
    sent,               \* messages delivered by bot.send_message in this iteration
    sleeps,             \* time.sleep(RETRY_TIME) calls made in this iteration
    entry,              \* current_timestamp and LAST_ERROR_MESSAGE when the iteration began
    prev,               \* outcome of the previous iteration
    iterations,         \* number of iterations begun
    exit_code           \* <<>> while running, <<code>> once the process has ended

vars == <<pc, tokens, exc_str, now, current_timestamp, LAST_ERROR_MESSAGE, http,
          from_date, response, homeworks, idx, message, error, sent, sleeps,
          entry, prev, iterations, exit_code>>

-----------------------------------------------------------------------------
(* Bounds of the model *)

MaxIter == 3
MaxLen == 2

-----------------------------------------------------------------------------
(* Module-level constants of homework.py *)

RETRY_TIME == 600

HTTP_OK == 200

KEY_HOMEWORKS == "homeworks"
KEY_HOMEWORK_NAME == "homework_name"
KEY_STATUS == "status"
KEY_CURRENT_DATE == "current_date"

HOMEWORK_STATUSES ==
    [approved |-> "Rabota proverena: revyueru vsyo ponravilos. Ura!",
     reviewing |-> "Rabota vzyata na proverku revyuerom.",
     rejected |-> "Rabota proverena: u revyuera est zamechaniya."]

TokenNames == {"PRACTICUM_TOKEN", "TELEGRAM_TOKEN", "TELEGRAM_CHAT_ID"}

\* int(time.mktime(datetime.date(2022, 3, 1).timetuple())), in UTC
StartTimestamp == 1646092800

-----------------------------------------------------------------------------
(* The values the environment can supply *)

Names == {"hw1"}
Statuses == DOMAIN HOMEWORK_STATUSES \cup {"unknown_value"}
Dates == {0, StartTimestamp - RETRY_TIME, StartTimestamp + RETRY_TIME}

NoName == "hw1"
NoStatus == "approved"
NoDate == 0

\* A homework dictionary; a key that is absent keeps a fixed filler value.
Homeworks ==
    { h \in [keys : SUBSET {KEY_HOMEWORK_NAME, KEY_STATUS},
             homework_name : Names, status : Statuses] :
        /\ (KEY_HOMEWORK_NAME \notin h.keys => h.homework_name = NoName)
        /\ (KEY_STATUS \notin h.keys => h.status = NoStatus) }

RECURSIVE SeqsUpTo(_, _)
SeqsUpTo(S, n) ==
    IF n = 0 THEN {<<>>}
    ELSE LET shorter == SeqsUpTo(S, n - 1)
         IN shorter \cup { Append(s, x) : s \in { t \in shorter : Len(t) = n - 1 }, x \in S }

NoHomeworksValue == [type |-> "list", items |-> <<>>]

\* The value under the homeworks key: a list of homeworks, or a dict.
HomeworksValues ==
    { [type |-> "list", items |-> s] : s \in SeqsUpTo(Homeworks, MaxLen) }
        \cup { [type |-> "dict", items |-> <<>>] }

\* A parsed JSON body: a dict with some of the two keys, or a list.
JsonValues ==
    { j \in [type : {"dict"}, keys : SUBSET {KEY_HOMEWORKS, KEY_CURRENT_DATE},
             homeworks : HomeworksValues, current_date : Dates \cup {NoDate}] :
        /\ (KEY_HOMEWORKS \notin j.keys => j.homeworks = NoHomeworksValue)
        /\ (KEY_CURRENT_DATE \notin j.keys => j.current_date = NoDate) }
    \cup { [type |-> "list", keys |-> {}, homeworks |-> NoHomeworksValue,
            current_date |-> NoDate] }

NoJson == [type |-> "none", keys |-> {}, homeworks |-> NoHomeworksValue,
           current_date |-> NoDate]

\* The body of an HTTP response: JSON text or text that is not JSON.
Bodies ==
    { [valid_json |-> TRUE, json |-> j] : j \in JsonValues }
        \cup { [valid_json |-> FALSE, json |-> NoJson] }

NoHttp == [connected |-> FALSE, status_code |-> 0,
           body |-> [valid_json |-> FALSE, json |-> NoJson]]

\* Status codes other than 200, and the bodies that come with them.
ErrorStatusCodes == {404, 500}
ErrorBodies == { b \in Bodies : b.valid_json => KEY_HOMEWORKS \notin b.json.keys }

\* What requests.get can do: raise, or return a status code and a body.
HttpOutcomes ==
    { [connected |-> TRUE, status_code |-> HTTP_OK, body |-> b] : b \in Bodies }
        \cup { [connected |-> TRUE, status_code |-> c, body |-> b] :
                  c \in ErrorStatusCodes, b \in ErrorBodies }
        \cup { NoHttp }

\* str() of EndpointError and HomeworkStatuseError raised without arguments.
\* The classes come from the exceptions module: either they keep the empty
\* text of Exception or each defines a text of its own.
ExceptionTexts ==
    { [c \in {"EndpointError", "HomeworkStatuseError"} |->
          IF custom THEN c \o ": custom text" ELSE ""] : custom \in BOOLEAN }

NoError == [type |-> "none", text |-> "", by |-> "none"]

Raise(type, text, by) == [type |-> type, text |-> text, by |-> by]

-----------------------------------------------------------------------------
(* The functions of homework.py.  A call yields [error, value]: the        *)
(* exception it raises (NoError when it returns) and the value it returns. *)

Returns(value) == [error |-> NoError, value |-> value]
Raises(type, text, by, filler) == [error |-> Raise(type, text, by), value |-> filler]

ErrorMessage(err) == "Sboi v rabote programmy: " \o err.text

\* bot.send_message(TELEGRAM_CHAT_ID, message): delivered, or the client raises.
send_message(msg, delivered) ==
    IF delivered
    THEN Returns(msg)
    ELSE Raises("TelegramError", "telegram: message not sent", "send_message", "")

\* An entry of the log of delivered messages: the text and the block that sent it.
Delivered(block, text) == [block |-> block, text |-> text]

\* The comparison of line 174 left out: every failure is reported.
ErrorChanged_always(msg, last) == TRUE

\* Line 174: message != LAST_ERROR_MESSAGE
ErrorChanged(msg, last) == msg # last

\* Line 52 without its `or int(time.time())`.
Timestamp_asgiven(timestamp, clock) == timestamp

\* timestamp = current_timestamp or int(time.time())
Timestamp(timestamp, clock) ==
    IF timestamp # 0 THEN timestamp ELSE clock

\* get_api_answer parsing the body before it looks at the status code.
get_api_answer_parsefirst(timestamp, clock, outcome) ==
    LET params == [from_date |-> Timestamp(timestamp, clock)]
        r == IF ~outcome.connected
             THEN Raises("ConnectionError", "requests: connection failed",
                         "requests.get", NoJson)
             ELSE IF ~outcome.body.valid_json
             THEN Raises("ValueError", "", "get_api_answer", NoJson)
             ELSE IF outcome.status_code # HTTP_OK
             THEN Raises("EndpointError", exc_str["EndpointError"],
                         "get_api_answer", NoJson)
             ELSE Returns(outcome.body.json)
    IN [error |-> r.error, value |-> r.value, params |-> params]

get_api_answer(timestamp, clock, outcome) ==
    LET params == [from_date |-> Timestamp(timestamp, clock)]
        r == IF ~outcome.connected
             THEN Raises("ConnectionError", "requests: connection failed",
                         "requests.get", NoJson)
             ELSE IF outcome.status_code # HTTP_OK
             THEN Raises("EndpointError", exc_str["EndpointError"],
                         "get_api_answer", NoJson)
             ELSE IF ~outcome.body.valid_json
             THEN Raises("ValueError", "", "get_api_answer", NoJson)
             ELSE Returns(outcome.body.json)
    IN [error |-> r.error, value |-> r.value, params |-> params]

\* check_response raising the KeyError of a subscript, which names the key.
check_response_keynamed(resp) ==
    IF resp.type # "dict"
    THEN Raises("TypeError", "", "check_response", <<>>)
    ELSE IF KEY_HOMEWORKS \notin resp.keys
    THEN Raises("KeyError", "'homeworks'", "check_response", <<>>)
    ELSE IF resp.homeworks.type # "list"
    THEN Raises("TypeError", "", "check_response", <<>>)
    ELSE Returns(resp.homeworks.items)

check_response(resp) ==
    IF resp.type # "dict"
    THEN Raises("TypeError", "", "check_response", <<>>)
    ELSE IF KEY_HOMEWORKS \notin resp.keys
    THEN Raises("KeyError", "", "check_response", <<>>)
    ELSE IF resp.homeworks.type # "list"
    THEN Raises("TypeError", "", "check_response", <<>>)
    ELSE Returns(resp.homeworks.items)

\* parse_status looking the status up before it checks that the key is there.
parse_status_lookupfirst(homework) ==
    IF KEY_HOMEWORK_NAME \notin homework.keys
    THEN Raises("KeyError", "", "parse_status", "")
    ELSE IF KEY_STATUS \notin homework.keys
    THEN Raises("HomeworkStatuseError", exc_str["HomeworkStatuseError"], "parse_status", "")
    ELSE IF homework.status \notin DOMAIN HOMEWORK_STATUSES
    THEN Raises("HomeworkStatuseError", exc_str["HomeworkStatuseError"], "parse_status", "")
    ELSE Returns("Izmenilsya status proverki raboty \"" \o homework.homework_name
                 \o "\". " \o HOMEWORK_STATUSES[homework.status])

parse_status(homework) ==
    IF KEY_HOMEWORK_NAME \notin homework.keys
    THEN Raises("KeyError", "", "parse_status", "")
    ELSE IF KEY_STATUS \notin homework.keys
    THEN Raises("KeyError", "", "parse_status", "")
    ELSE IF homework.status \notin DOMAIN HOMEWORK_STATUSES
    THEN Raises("HomeworkStatuseError", exc_str["HomeworkStatuseError"], "parse_status", "")
    ELSE Returns("Izmenilsya status proverki raboty \"" \o homework.homework_name
                 \o "\". " \o HOMEWORK_STATUSES[homework.status])

\* check_tokens without its last branch.
check_tokens_nochatid(present) ==
    IF "PRACTICUM_TOKEN" \notin present THEN FALSE
    ELSE IF "TELEGRAM_TOKEN" \notin present THEN FALSE
    ELSE TRUE

check_tokens(present) ==
    IF "PRACTICUM_TOKEN" \notin present THEN FALSE
    ELSE IF "TELEGRAM_TOKEN" \notin present THEN FALSE
    ELSE IF "TELEGRAM_CHAT_ID" \notin present THEN FALSE
    ELSE TRUE

-----------------------------------------------------------------------------
(* main() *)

PcValues == {"start", "fetch", "check_response", "for", "send", "current_date",
             "sleep", "except", "sleep_except", "exited", "crashed"}

NoPrev == [failed |-> FALSE, message |-> "", error |-> NoError]

Init ==
    /\ pc = "start"
    /\ tokens \in SUBSET TokenNames
    /\ exc_str \in ExceptionTexts
    /\ now = StartTimestamp + 1
    /\ current_timestamp = StartTimestamp
    /\ LAST_ERROR_MESSAGE = ""
    /\ http = NoHttp
    /\ from_date = 0
    /\ response = NoJson
    /\ homeworks = <<>>
    /\ idx = 0
    /\ message = ""
    /\ error = NoError
    /\ sent = <<>>
    /\ sleeps = 0
    /\ entry = [current_timestamp |-> StartTimestamp, LAST_ERROR_MESSAGE |-> ""]
    /\ prev = NoPrev
    /\ iterations = 0
    /\ exit_code = <<>>

\* Lines 144-151: exit() when a token is missing, else enter the loop.
Startup ==
    /\ pc = "start"
    /\ IF ~check_tokens(tokens)
       THEN pc' = "exited" /\ exit_code' = <<0>>
       ELSE pc' = "fetch" /\ exit_code' = exit_code
    /\ UNCHANGED <<tokens, exc_str, now, current_timestamp, LAST_ERROR_MESSAGE, http,
                   from_date, response, homeworks, idx, message, error, sent,
                   sleeps, entry, prev, iterations>>

\* Line 155: response = get_api_answer(current_timestamp)
Fetch ==
    /\ pc = "fetch"
    /\ iterations < MaxIter
    /\ \E outcome \in HttpOutcomes :
         LET r == get_api_answer(current_timestamp, now, outcome) IN
         /\ http' = outcome
         /\ from_date' = r.params.from_date
         /\ IF r.error = NoError
            THEN pc' = "check_response" /\ response' = r.value /\ error' = error
            ELSE pc' = "except" /\ response' = response /\ error' = r.error
    /\ iterations' = iterations + 1
    /\ sleeps' = 0
    /\ UNCHANGED <<tokens, exc_str, now, current_timestamp, LAST_ERROR_MESSAGE,
                   homeworks, idx, message, sent, entry, prev, exit_code>>

\* Lines 156-159: homeworks = check_response(response), and the test for [].
Validate ==
    /\ pc = "check_response"
    /\ LET r == check_response(response) IN
         IF r.error = NoError
         THEN /\ homeworks' = r.value
              /\ idx' = 1
              /\ pc' = IF r.value = <<>> THEN "current_date" ELSE "for"
              /\ error' = error
         ELSE /\ pc' = "except"
              /\ error' = r.error
              /\ UNCHANGED <<homeworks, idx>>
    /\ UNCHANGED <<tokens, exc_str, now, current_timestamp, LAST_ERROR_MESSAGE, http,
                   from_date, response, message, sent, sleeps, entry, prev,
                   iterations, exit_code>>

\* Line 161: message = parse_status(homework)
Parse ==
    /\ pc = "for"
    /\ LET r == parse_status(homeworks[idx]) IN
         IF r.error = NoError
         THEN pc' = "send" /\ message' = r.value /\ error' = error
         ELSE pc' = "except" /\ message' = message /\ error' = r.error
    /\ UNCHANGED <<tokens, exc_str, now, current_timestamp, LAST_ERROR_MESSAGE, http,
                   from_date, response, homeworks, idx, sent, sleeps, entry, prev,
                   iterations, exit_code>>

\* Lines 162-163 with a failed send passed over: the loop goes on to the next homework.
Send_skipfailed ==
    /\ pc = "send"
    /\ \E delivered \in BOOLEAN :
         LET r == send_message(message, delivered) IN
         /\ sent' = IF r.error = NoError
                    THEN Append(sent, Delivered("try", r.value))
                    ELSE sent
         /\ idx' = idx + 1
         /\ pc' = IF idx < Len(homeworks) THEN "for" ELSE "current_date"
         /\ error' = error
    /\ UNCHANGED <<tokens, exc_str, now, current_timestamp, LAST_ERROR_MESSAGE, http,
                   from_date, response, homeworks, message, sleeps, entry, prev,
                   iterations, exit_code>>

\* Lines 162-163: send_message(bot, message), then the next homework.
Send ==
    /\ pc = "send"
    /\ \E delivered \in BOOLEAN :
         LET r == send_message(message, delivered) IN
         IF r.error = NoError
         THEN /\ sent' = Append(sent, Delivered("try", r.value))
              /\ idx' = idx + 1
              /\ pc' = IF idx < Len(homeworks) THEN "for" ELSE "current_date"
              /\ error' = error
         ELSE /\ pc' = "except"
              /\ error' = r.error
              /\ UNCHANGED <<sent, idx>>
    /\ UNCHANGED <<tokens, exc_str, now, current_timestamp, LAST_ERROR_MESSAGE, http,
                   from_date, response, homeworks, message, sleeps, entry, prev,
                   iterations, exit_code>>

\* Lines 164-170 without the assignment of line 170.
AdvanceTimestamp_noassign ==
    /\ pc = "current_date"
    /\ IF KEY_CURRENT_DATE \notin response.keys
       THEN /\ pc' = "except"
            /\ error' = Raise("KeyError", "", "main")
       ELSE /\ pc' = "sleep"
            /\ error' = error
    /\ UNCHANGED <<tokens, exc_str, now, current_timestamp, LAST_ERROR_MESSAGE, http,
                   from_date, response, homeworks, idx, message, sent, sleeps, entry,
                   prev, iterations, exit_code>>

\* Lines 164-170 with the assignment of line 170 made before the test of line 164.
AdvanceTimestamp_assignfirst ==
    /\ pc = "current_date"
    /\ current_timestamp' = response.current_date
    /\ IF KEY_CURRENT_DATE \notin response.keys
       THEN /\ pc' = "except"
            /\ error' = Raise("KeyError", "", "main")
       ELSE /\ pc' = "sleep"
            /\ error' = error
    /\ UNCHANGED <<tokens, exc_str, now, LAST_ERROR_MESSAGE, http, from_date, response,
                   homeworks, idx, message, sent, sleeps, entry, prev, iterations,
                   exit_code>>

\* Lines 164-170: the current_date key, then the new current_timestamp.
AdvanceTimestamp ==
    /\ pc = "current_date"
    /\ IF KEY_CURRENT_DATE \notin response.keys
       THEN /\ pc' = "except"
            /\ error' = Raise("KeyError", "", "main")
            /\ current_timestamp' = current_timestamp
       ELSE /\ pc' = "sleep"
            /\ error' = error
            /\ current_timestamp' = response.current_date
    /\ UNCHANGED <<tokens, exc_str, now, LAST_ERROR_MESSAGE, http, from_date, response,
                   homeworks, idx, message, sent, sleeps, entry, prev, iterations,
                   exit_code>>

\* The next iteration begun without the time.sleep of line 178.
NextIteration_nosleep(failed) ==
    /\ pc' = "fetch"
    /\ now' = IF failed THEN now ELSE now + RETRY_TIME
    /\ sleeps' = IF failed THEN sleeps ELSE sleeps + 1
    /\ prev' = [failed |-> failed, message |-> IF failed THEN message ELSE "",
                error |-> IF failed THEN error ELSE NoError]
    /\ entry' = [current_timestamp |-> current_timestamp,
                 LAST_ERROR_MESSAGE |-> LAST_ERROR_MESSAGE]
    /\ http' = NoHttp
    /\ from_date' = 0
    /\ response' = NoJson
    /\ homeworks' = <<>>
    /\ idx' = 0
    /\ message' = ""
    /\ error' = NoError
    /\ sent' = <<>>
    /\ UNCHANGED <<tokens, exc_str, current_timestamp, LAST_ERROR_MESSAGE, iterations,
                   exit_code>>

\* The next iteration begun with LAST_ERROR_MESSAGE cleared after a success.
NextIteration_reset(failed) ==
    /\ pc' = "fetch"
    /\ now' = now + RETRY_TIME
    /\ sleeps' = sleeps + 1
    /\ prev' = [failed |-> failed, message |-> IF failed THEN message ELSE "",
                error |-> IF failed THEN error ELSE NoError]
    /\ entry' = [current_timestamp |-> current_timestamp,
                 LAST_ERROR_MESSAGE |-> LAST_ERROR_MESSAGE]
    /\ http' = NoHttp
    /\ from_date' = 0
    /\ response' = NoJson
    /\ homeworks' = <<>>
    /\ idx' = 0
    /\ message' = ""
    /\ error' = NoError
    /\ sent' = <<>>
    /\ LAST_ERROR_MESSAGE' = IF failed THEN LAST_ERROR_MESSAGE ELSE ""
    /\ UNCHANGED <<tokens, exc_str, current_timestamp, iterations, exit_code>>

\* The state in which the next iteration begins.
NextIteration(failed) ==
    /\ pc' = "fetch"
    /\ now' = now + RETRY_TIME
    /\ sleeps' = sleeps + 1
    /\ prev' = [failed |-> failed, message |-> IF failed THEN message ELSE "",
                error |-> IF failed THEN error ELSE NoError]
    /\ entry' = [current_timestamp |-> current_timestamp,
                 LAST_ERROR_MESSAGE |-> LAST_ERROR_MESSAGE]
    /\ http' = NoHttp
    /\ from_date' = 0
    /\ response' = NoJson
    /\ homeworks' = <<>>
    /\ idx' = 0
    /\ message' = ""
    /\ error' = NoError
    /\ sent' = <<>>
    /\ UNCHANGED <<tokens, exc_str, current_timestamp, LAST_ERROR_MESSAGE, iterations,
                   exit_code>>

\* Line 171: time.sleep(RETRY_TIME) of the try block.
Sleep ==
    /\ pc = "sleep"
    /\ NextIteration(FALSE)

\* Lines 172-177: the except block; an exception of its send_message is not caught.
Except ==
    /\ pc = "except"
    /\ message' = ErrorMessage(error)
    /\ IF ErrorChanged(message', LAST_ERROR_MESSAGE)
       THEN \E delivered \in BOOLEAN :
              LET r == send_message(message', delivered) IN
              IF r.error = NoError
              THEN /\ sent' = Append(sent, Delivered("except", r.value))
                   /\ LAST_ERROR_MESSAGE' = message'
                   /\ pc' = "sleep_except"
                   /\ UNCHANGED <<error, exit_code>>
              ELSE /\ pc' = "crashed"
                   /\ error' = r.error
                   /\ exit_code' = <<1>>
                   /\ UNCHANGED <<sent, LAST_ERROR_MESSAGE>>
       ELSE /\ pc' = "sleep_except"
            /\ UNCHANGED <<sent, LAST_ERROR_MESSAGE, error, exit_code>>
    /\ UNCHANGED <<tokens, exc_str, now, current_timestamp, http, from_date, response,
                   homeworks, idx, sleeps, entry, prev, iterations>>

\* Line 178: time.sleep(RETRY_TIME) of the except block.
SleepExcept ==
    /\ pc = "sleep_except"
    /\ NextIteration(TRUE)

Next ==
    \/ Startup
    \/ Fetch
    \/ Validate
    \/ Parse
    \/ Send
    \/ AdvanceTimestamp
    \/ Sleep
    \/ Except
    \/ SleepExcept

Spec == Init /\ [][Next]_vars

TypeOK ==
    /\ pc \in PcValues
    /\ tokens \subseteq TokenNames
    /\ current_timestamp \in Dates \cup {StartTimestamp}
    /\ http \in HttpOutcomes
    /\ response \in JsonValues \cup {NoJson}
    /\ idx \in 0..(MaxLen + 1)
    /\ Len(sent) <= MaxLen + 1
    /\ iterations \in 0..MaxIter
    /\ exit_code \in {<<>>, <<0>>, <<1>>}

-----------------------------------------------------------------------------
(* Vocabulary of the properties *)

Contains(s, t) ==
    \E i \in 1..(Len(s) - Len(t) + 1) : SubSeq(s, i, i + Len(t) - 1) = t

\* The messages the except block delivered in this iteration.
ErrorNotifications == SelectSeq(sent, LAMBDA d : d.block = "except")

\* The messages the for loop of the try block delivered in this iteration.
HomeworkNotifications == SelectSeq(sent, LAMBDA d : d.block = "try")

\* The iteration has raised and the except block has run.
IterationFailed == pc \in {"sleep_except", "crashed"}

\* The GET of this iteration is made and current_timestamp is not yet reassigned.
Fetched == pc \in {"check_response", "for", "send", "current_date", "except",
                   "sleep_except", "crashed"}

\* check_response has returned in this iteration and the loop is still in the try block.
Validated == pc \in {"for", "send", "current_date"}

LoopEntered == pc \notin {"start", "exited"}

\* A response the data model of the API allows.
WellFormed(resp) ==
    /\ resp.type = "dict"
    /\ KEY_HOMEWORKS \in resp.keys
    /\ KEY_CURRENT_DATE \in resp.keys
    /\ resp.homeworks.type = "list"

\* The GET of this iteration returned 200 and a well-formed body without homeworks.
NoUpdates ==
    /\ http.connected
    /\ http.status_code = HTTP_OK
    /\ http.body.valid_json
    /\ WellFormed(http.body.json)
    /\ http.body.json.homeworks.items = <<>>

-----------------------------------------------------------------------------
(* C1: once the loop is entered main() never stops: no failure of an       *)
(* iteration, a failing bot.send_message included, ends the process.       *)
(* The except block's own send_message is outside any try: when it raises, *)
(* main() ends.                                                            *)
C1_LoopNeverStops == LoopEntered => (pc # "crashed" /\ exit_code = <<>>)

(* C2: when two consecutive iterations fail with the same error message,   *)
(* the second one makes no error notification (and no attempt at one).     *)
C2_DuplicateSuppressed ==
    (IterationFailed /\ prev.failed /\ prev.message = message)
        => (pc = "sleep_except" /\ ErrorNotifications = <<>>)

C2_Witness ==
    /\ pc = "sleep_except"
    /\ prev.failed
    /\ prev.message = message
    /\ sent = <<>>

(* C3: current_timestamp never decreases, whatever current_date values     *)
(* the API supplies.  Line 170 assigns the supplied value as it is.        *)
C3_TimestampMonotonic == [][current_timestamp' >= current_timestamp]_vars

(* C4: an iteration that fails with a message different from the last      *)
(* reported one delivers exactly one error notification, carrying that     *)
(* message, and LAST_ERROR_MESSAGE becomes that message.                   *)
C4_ChangedErrorForwarded ==
    (IterationFailed /\ message # entry.LAST_ERROR_MESSAGE)
        => /\ ErrorNotifications = <<Delivered("except", message)>>
           /\ LAST_ERROR_MESSAGE = message

(* C5: with a credential absent the process exits with code 0 before the   *)
(* loop, having made no request and sent no message; with all three        *)
(* present it enters the loop and does not exit.                           *)
C5_MissingCredentialExits ==
    /\ (tokens # TokenNames /\ pc # "start")
          => (pc = "exited" /\ exit_code = <<0>> /\ iterations = 0
              /\ http = NoHttp /\ sent = <<>>)
    /\ (tokens = TokenNames /\ pc # "start") => LoopEntered

C5_Witness ==
    /\ pc = "exited"
    /\ tokens = TokenNames \ {"TELEGRAM_CHAT_ID"}

(* C6: check_response raises for a response that is not a dict, has no     *)
(* homeworks key, has no current_date key or whose homeworks is not a      *)
(* list, and returns the homeworks list unchanged for every other one.     *)
(* check_response never looks at current_date.                             *)
C6_ValidateRejectsMalformed ==
    /\ Validated => (WellFormed(response) /\ homeworks = response.homeworks.items)
    /\ (pc = "except" /\ error.by = "check_response") => ~WellFormed(response)

(* C7: an iteration whose GET returns a well-formed response with an empty *)
(* homeworks list delivers no message, does not enter the except block,    *)
(* leaves LAST_ERROR_MESSAGE as it was and ends with current_timestamp     *)
(* equal to the response's current_date.                                   *)
C7_EmptyHomeworks ==
    NoUpdates =>
        /\ sent = <<>>
        /\ pc \in {"check_response", "current_date", "sleep"}
        /\ LAST_ERROR_MESSAGE = entry.LAST_ERROR_MESSAGE
        /\ (pc = "sleep" => current_timestamp = http.body.json.current_date)

C7_Witness ==
    /\ NoUpdates
    /\ pc = "sleep"
    /\ current_timestamp # entry.current_timestamp
    /\ entry.LAST_ERROR_MESSAGE # ""

(* C8: parse_status raises KeyError when homework_name or status is        *)
(* missing, whatever the status; raises HomeworkStatuseError when both are *)
(* there and the status is not a key of HOMEWORK_STATUSES; and otherwise   *)
(* returns a message that contains the homework's name and the verdict of  *)
(* its status.                                                             *)
C8_Describe ==
    /\ pc = "send" =>
          LET h == homeworks[idx] IN
          /\ h.keys = {KEY_HOMEWORK_NAME, KEY_STATUS}
          /\ h.status \in DOMAIN HOMEWORK_STATUSES
          /\ Contains(message, h.homework_name)
          /\ Contains(message, HOMEWORK_STATUSES[h.status])
    /\ (pc = "except" /\ error.by = "parse_status") =>
          LET h == homeworks[idx] IN
          IF h.keys # {KEY_HOMEWORK_NAME, KEY_STATUS}
          THEN error.type = "KeyError"
          ELSE error.type = "HomeworkStatuseError"
               /\ h.status \notin DOMAIN HOMEWORK_STATUSES

C8_Witness ==
    /\ pc = "except"
    /\ error.by = "parse_status"
    /\ error.type = "KeyError"
    /\ homeworks[idx].keys = {KEY_HOMEWORK_NAME}
    /\ sent # <<>>

(* C9, as stated: the GET of every iteration carries from_date equal to    *)
(* current_timestamp, also when current_timestamp is 0.                    *)
C9_FromDateIsTimestamp == Fetched => from_date = current_timestamp

(* C9, amended: from_date is current_timestamp when that is not 0, and     *)
(* the time of the request when it is 0.                                   *)
C9_FromDateOrNow ==
    Fetched => /\ (current_timestamp # 0 => from_date = current_timestamp)
               /\ (current_timestamp = 0 => from_date = now)

C9_Witness ==
    /\ Fetched
    /\ current_timestamp = 0
    /\ from_date = now

(* C10: get_api_answer raises EndpointError whenever the status code is    *)
(* not 200, whatever the body; raises ValueError when the code is 200 and  *)
(* the body is not JSON; and returns the parsed body exactly when the code *)
(* is 200 and the body is JSON.                                            *)
C10_Fetch ==
    /\ pc = "check_response" =>
          /\ http.connected
          /\ http.status_code = HTTP_OK
          /\ http.body.valid_json
          /\ response = http.body.json
    /\ (pc = "except" /\ http.connected) =>
          /\ http.status_code # HTTP_OK
                => (error.type = "EndpointError" /\ error.by = "get_api_answer")
          /\ (http.status_code = HTTP_OK /\ ~http.body.valid_json)
                => (error.type = "ValueError" /\ error.by = "get_api_answer")
          /\ (http.status_code = HTTP_OK /\ http.body.valid_json)
                => error.by # "get_api_answer"
    /\ (http.connected /\ ~(http.status_code = HTTP_OK /\ http.body.valid_json))
          => pc \in {"except", "sleep_except", "crashed"}

C10_Witness ==
    /\ pc = "except"
    /\ error.type = "EndpointError"
    /\ http.body.valid_json

(* C11: the response is validated before any homework is notified: an    *)
(* iteration whose response has no current_date key delivers no homework   *)
(* notification.  The key is tested at line 164, after the for loop, so    *)
(* the homeworks are notified first and, current_timestamp staying as it   *)
(* was, can be notified again by the next iteration.                       *)
C11_ValidationPrecedesNotification ==
    KEY_CURRENT_DATE \notin response.keys => HomeworkNotifications = <<>>

\* The notification d reports the homework h: it is the text of line 113 for
\* the name and the verdict of h.
Reports(d, h) ==
    /\ h.keys = {KEY_HOMEWORK_NAME, KEY_STATUS}
    /\ h.status \in DOMAIN HOMEWORK_STATUSES
    /\ d.text = "Izmenilsya status proverki raboty \"" \o h.homework_name
                   \o "\". " \o HOMEWORK_STATUSES[h.status]

\* Exactly the first k homeworks have been notified, in their order.
NotifiedUpTo(k) ==
    /\ Len(HomeworkNotifications) = k
    /\ \A i \in 1..k : Reports(HomeworkNotifications[i], homeworks[i])

(* C12: the homeworks are described and notified one by one in the order   *)
(* of the response: while the loop is at homework k exactly the first k-1  *)
(* are notified; a successful iteration has notified all n, in order, and  *)
(* only then sets current_timestamp; when parse_status or send_message     *)
(* fails on homework k exactly the first k-1 are notified, none of the     *)
(* rest is, and current_timestamp is as it was.                            *)
C12_NotifiedInOrder ==
    /\ pc \in {"for", "send"} =>
          (NotifiedUpTo(idx - 1) /\ current_timestamp = entry.current_timestamp)
    /\ pc = "current_date" =>
          (NotifiedUpTo(Len(homeworks)) /\ current_timestamp = entry.current_timestamp)
    /\ pc = "sleep" =>
          (NotifiedUpTo(Len(homeworks)) /\ current_timestamp = response.current_date)
    /\ (pc \in {"except", "sleep_except"} /\ error.by \in {"parse_status", "send_message"}) =>
          /\ idx \in 1..Len(homeworks)
          /\ NotifiedUpTo(idx - 1)
          /\ current_timestamp = entry.current_timestamp

C12_Witness ==
    /\ pc = "sleep_except"
    /\ error.by = "send_message"
    /\ Len(homeworks) = 2
    /\ idx = 2
    /\ homeworks[1].status # homeworks[2].status
    /\ Len(HomeworkNotifications) = 1

(* C13: both paths return to the GET only through the sleep: main sleeps *)
(* RETRY_TIME seconds exactly once at the end of an iteration, successful  *)
(* or failed, and nowhere else, so every GET but the first comes after     *)
(* exactly one sleep since the GET before it.                              *)
C13_OneSleepBetweenFetches ==
    [][ /\ (pc = "fetch" /\ iterations > 0) => sleeps = 1
        /\ pc = "fetch" => sleeps' = 0
        /\ pc \in {"sleep", "sleep_except"} =>
              /\ pc' = "fetch"
              /\ sleeps = 0
              /\ sleeps' = 1
              /\ now' = now + RETRY_TIME
        /\ pc \notin {"sleep", "sleep_except"} => (now' = now /\ sleeps' <= sleeps)
      ]_vars

C13_Witness ==
    /\ pc = "fetch"
    /\ iterations = 2
    /\ sleeps = 1
    /\ prev.failed

(* C14: an iteration that fails at any step leaves current_timestamp as    *)
(* it was when the iteration began, and the next iteration begins with     *)
(* that value; current_timestamp changes only at line 170, at the end of   *)
(* the try block of a successful iteration, to the response's current_date.*)
C14_TimestampFrame ==
    [][ /\ pc \in {"except", "sleep_except"} =>
              /\ current_timestamp = entry.current_timestamp
              /\ current_timestamp' = current_timestamp
        /\ pc = "sleep_except" => entry'.current_timestamp = entry.current_timestamp
        /\ current_timestamp' # current_timestamp =>
              /\ pc = "current_date"
              /\ pc' = "sleep"
              /\ KEY_CURRENT_DATE \in response.keys
              /\ current_timestamp' = response.current_date
      ]_vars

C14_Witness ==
    /\ pc = "fetch"
    /\ prev.failed
    /\ iterations = 2
    /\ current_timestamp = StartTimestamp - RETRY_TIME

(* C15: nothing but the except block changes LAST_ERROR_MESSAGE, so a    *)
(* successful iteration leaves it as it was; a handled failure leaves it   *)
(* equal to the failure's message; and a failure whose message equals      *)
(* LAST_ERROR_MESSAGE, however many successful iterations lie between,     *)
(* delivers no notification.                                               *)
C15_LastErrorKept ==
    [][ /\ pc # "except" => LAST_ERROR_MESSAGE' = LAST_ERROR_MESSAGE
        /\ (pc = "except" /\ pc' = "sleep_except") => LAST_ERROR_MESSAGE' = message'
        /\ (pc = "except" /\ ErrorMessage(error) = LAST_ERROR_MESSAGE) =>
              /\ pc' = "sleep_except"
              /\ sent' = sent
              /\ LAST_ERROR_MESSAGE' = LAST_ERROR_MESSAGE
      ]_vars

C15_Witness ==
    /\ pc = "sleep_except"
    /\ iterations = 3
    /\ ~prev.failed
    /\ message = entry.LAST_ERROR_MESSAGE
    /\ ErrorNotifications = <<>>

\* An exception the source raises without arguments from a built-in class.
RaisedBare(e) == e.type \in {"ValueError", "TypeError", "KeyError"}

(* C16: the ValueError of get_api_answer, the TypeError and KeyError of    *)
(* check_response and the KeyError of parse_status and of line 169 all     *)
(* give the same message text, so a failure of one of these kinds that     *)
(* follows a failure of another of them delivers no error notification.    *)
C16_BareErrorsAlike ==
    /\ (pc = "except" /\ RaisedBare(error)) =>
          ErrorMessage(error) = "Sboi v rabote programmy: "
    /\ (pc = "except" /\ RaisedBare(error) /\ prev.failed /\ RaisedBare(prev.error)) =>
          ErrorMessage(error) = LAST_ERROR_MESSAGE
    /\ (pc = "sleep_except" /\ RaisedBare(error) /\ prev.failed /\ RaisedBare(prev.error)) =>
          ErrorNotifications = <<>>

C16_Witness ==
    /\ pc = "sleep_except"
    /\ error.type = "ValueError"
    /\ prev.failed
    /\ prev.error.type = "KeyError"
    /\ prev.error.by = "parse_status"
    /\ ErrorNotifications = <<>>

====
